---- MODULE Spec2Model ----
(***************************************************************************)
(* Runtime-spec data model of oci-spec-rs: State persistence (load/save),  *)
(* ContainerState, Mount construction and the default mount catalog, and   *)
(* the z/OS namespace type conversion.                                     *)
(*                                                                         *)
(* Text is modelled as sequences of one-character strings so that case and *)
(* containment are real.  A JSON document is modelled at token level: one  *)
(* token per brace and per "key":value member.                             *)
(***************************************************************************)
EXTENDS Integers, Sequences, FiniteSets, TLC

\* BufWriter / BufReader capacity, in tokens (scaled down from the 8 KiB of std)
BufCap == 8

I32_MAX == 2147483647

VARIABLES
    \* one caller saving and loading
    fs,        \* what is at the path: its kind and, for a file, its tokens
    call,      \* the last call of the caller: operation, argument, result
    \* two savers and one loader running concurrently
    file,      \* the file at the path: whether it exists and its tokens
    wst,       \* wst[w]: the State writer w saves
    wpc,       \* wpc[w]: where writer w is in State::save
    woff,      \* woff[w]: the offset of writer w's file descriptor
    wpos,      \* wpos[w]: the next token of its document writer w hands out
    wfresh,    \* wfresh[w]: no other writer touched the file since w created it
    finished,  \* the writers in the order their save returned
    rpc,       \* where the reader is in State::load
    roff,      \* the offset of the reader's file descriptor
    rdata,     \* the tokens the reader has read
    rres,      \* the result of load
    rfresh,    \* no writer touched the file since the reader opened it
    \* Mount construction
    mb,        \* the MountBuilder being filled
    made,      \* the last construction: its path, input and result
    \* enumerations
    nsCall,    \* the last ZOSNamespaceType::try_from call
    csCall     \* the last ContainerState conversion

seqVars == <<fs, call>>
raceVars == <<file, wst, wpc, woff, wpos, wfresh, finished,
              rpc, roff, rdata, rres, rfresh>>
mountVars == <<mb, made>>
enumVars == <<nsCall, csCall>>
vars == <<seqVars, raceVars, mountVars, enumVars>>

----------------------------------------------------------------------------
(* Option<T>: None is the empty sequence, Some(x) the one-element sequence *)
None == <<>>
Some(x) == <<x>>
IsSome(o) == Len(o) = 1
Unwrap(o) == o[1]

RECURSIVE Orders(_)
\* every iteration order of a HashMap's entries
Orders(S) ==
    IF S = {} THEN {<<>>}
    ELSE UNION {{<<x>> \o o : o \in Orders(S \ {x})} : x \in S}

----------------------------------------------------------------------------
(* ContainerState *)
ContainerStates == {"Creating", "Created", "Running", "Stopped"}

\* the identifier of each variant as written in the enum
VariantName(c) ==
    CASE c = "Creating" -> <<"C","r","e","a","t","i","n","g">>
      [] c = "Created"  -> <<"C","r","e","a","t","e","d">>
      [] c = "Running"  -> <<"R","u","n","n","i","n","g">>
      [] c = "Stopped"  -> <<"S","t","o","p","p","e","d">>

LowerChar(ch) ==
    CASE ch = "C" -> "c"
      [] ch = "R" -> "r"
      [] ch = "S" -> "s"
      [] ch = "P" -> "p"
      [] ch = "I" -> "i"
      [] ch = "D" -> "d"
      [] ch = "M" -> "m"
      [] ch = "U" -> "u"
      [] OTHER -> ch

ToLower(s) == [i \in 1..Len(s) |-> LowerChar(s[i])]

\* the variant identifier written as it is, without rename_all
ContainerStateSerialize_Verbatim(c) == VariantName(c)

\* #[serde(rename_all = "lowercase")] on ContainerState: Serialize
ContainerStateSerialize(c) == ToLower(VariantName(c))

\* #[serde(rename_all = "lowercase")] on ContainerState: Deserialize
ContainerStateDeserialize(tok) ==
    IF \E c \in ContainerStates : ToLower(VariantName(c)) = tok
    THEN [ok |-> TRUE, val |-> CHOOSE c \in ContainerStates : ToLower(VariantName(c)) = tok]
    ELSE [ok |-> FALSE, val |-> "SerDe"]

\* impl Display for ContainerState
ContainerStateDisplay(c) ==
    CASE c = "Creating" -> <<"c","r","e","a","t","i","n","g">>
      [] c = "Created"  -> <<"c","r","e","a","t","e","d">>
      [] c = "Running"  -> <<"r","u","n","n","i","n","g">>
      [] c = "Stopped"  -> <<"s","t","o","p","p","e","d">>

\* #[default] Stopped
ContainerStateDefault == "Stopped"

----------------------------------------------------------------------------
(* i32 <-> decimal text *)
DigitChar(d) ==
    CASE d = 0 -> "0" [] d = 1 -> "1" [] d = 2 -> "2" [] d = 3 -> "3"
      [] d = 4 -> "4" [] d = 5 -> "5" [] d = 6 -> "6" [] d = 7 -> "7"
      [] d = 8 -> "8" [] d = 9 -> "9"

IsDigit(ch) == ch \in {"0","1","2","3","4","5","6","7","8","9"}
DigitVal(ch) == CHOOSE d \in 0..9 : DigitChar(d) = ch

RECURSIVE FormatNat(_)
FormatNat(n) == IF n < 10 THEN <<DigitChar(n)>>
                ELSE FormatNat(n \div 10) \o <<DigitChar(n % 10)>>

\* serde_json's integer formatting of an i32
FormatI32(n) == IF n < 0 THEN <<"-">> \o FormatNat(0 - n) ELSE FormatNat(n)

RECURSIVE ParseNat(_, _, _)
\* accumulates digits; -1 when the text is not a number that fits an i32
ParseNat(s, i, acc) ==
    IF i > Len(s) THEN acc
    ELSE IF ~IsDigit(s[i]) THEN -1
    ELSE IF acc > (I32_MAX - DigitVal(s[i])) \div 10 THEN -1
    ELSE ParseNat(s, i + 1, acc * 10 + DigitVal(s[i]))

\* serde_json's number parsing into an i32
ParseI32(s) ==
    IF Len(s) = 0 THEN [ok |-> FALSE, val |-> 0]
    ELSE IF s[1] = "-"
         THEN IF Len(s) = 1 \/ ParseNat(s, 2, 0) < 0
              THEN [ok |-> FALSE, val |-> 0]
              ELSE [ok |-> TRUE, val |-> 0 - ParseNat(s, 2, 0)]
         ELSE IF ParseNat(s, 1, 0) < 0
              THEN [ok |-> FALSE, val |-> 0]
              ELSE [ok |-> TRUE, val |-> ParseNat(s, 1, 0)]

----------------------------------------------------------------------------
(* JSON tokens *)
TObj      == [t |-> "{",    k |-> "", v |-> <<>>]
TEnd      == [t |-> "}",    k |-> "", v |-> <<>>]
TStr(k, v) == [t |-> "str",  k |-> k,  v |-> v]
TNum(k, v) == [t |-> "num",  k |-> k,  v |-> v]
TNull(k)  == [t |-> "null", k |-> k,  v |-> <<>>]
TSub(k)   == [t |-> "obj",  k |-> k,  v |-> <<>>]
TKey(k)   == [t |-> "key",  k |-> k,  v |-> <<>>]
TNul      == [t |-> "nul",  k |-> "", v |-> <<>>]
TJunk     == [t |-> "junk", k |-> "", v |-> <<>>]

\* the byte a non-UTF-8 path contains
BadByte == "\\xff"
IsUtf8(p) == \A i \in 1..Len(p) : p[i] # BadByte

----------------------------------------------------------------------------
(* State *)
Versions == {<<>>, <<"1",".","2">>}
Ids == {<<>>, <<"c","1">>}
Pids == {None, Some(-1), Some(I32_MAX)}
Bundles == {<<>>, <<"/","b">>, <<"/",BadByte>>}
AnnotationMaps == {None, Some({}), Some({<<"k1", <<"v">>>>, <<"k2", <<>>>>})}

States == [version : Versions, id : Ids, status : ContainerStates,
           pid : Pids, bundle : Bundles, annotations : AnnotationMaps]

\* #[derive(Default)] on State
StateDefault == [version |-> <<>>, id |-> <<>>, status |-> ContainerStateDefault,
                 pid |-> None, bundle |-> <<>>, annotations |-> None]

\* the wire keys of State's fields (rename_all = "camelCase", rename = "ociVersion")
StateKeys == {"ociVersion", "id", "status", "pid", "bundle", "annotations"}
FieldOf(k) == IF k = "ociVersion" THEN "version" ELSE k

\* the iteration orders of the annotations map, <<>> alone when there is none
AnnotationOrders(s) ==
    IF IsSome(s.annotations) THEN Orders(Unwrap(s.annotations)) ELSE {<<>>}

\* skip_serializing_if = "Option::is_none" on pid
SerializePid(s) ==
    IF IsSome(s.pid) THEN <<TNum("pid", FormatI32(Unwrap(s.pid)))>> ELSE <<>>

\* skip_serializing_if = "Option::is_none" on annotations
SerializeAnnotations(s, order) ==
    IF IsSome(s.annotations)
    THEN <<TSub("annotations")>> \o [i \in 1..Len(order) |-> TStr(order[i][1], order[i][2])]
         \o <<TEnd>>
    ELSE <<>>

\* the first member's key as rename = "ociVersion" is dropped
SerializeState_NoRename(s, order) ==
    IF IsUtf8(s.bundle)
    THEN [ok |-> TRUE,
          toks |-> <<TObj, TStr("version", s.version), TStr("id", s.id),
                     TStr("status", ContainerStateSerialize(s.status))>>
                   \o SerializePid(s) \o <<TStr("bundle", s.bundle)>>
                   \o SerializeAnnotations(s, order) \o <<TEnd>>]
    ELSE [ok |-> FALSE,
          toks |-> <<TObj, TStr("version", s.version), TStr("id", s.id),
                     TStr("status", ContainerStateSerialize(s.status))>>
                   \o SerializePid(s) \o <<TKey("bundle")>>]

\* pid written as null when absent, as without skip_serializing_if
SerializeState_NullPid(s, order) ==
    IF IsUtf8(s.bundle)
    THEN [ok |-> TRUE,
          toks |-> <<TObj, TStr("ociVersion", s.version), TStr("id", s.id),
                     TStr("status", ContainerStateSerialize(s.status))>>
                   \o (IF IsSome(s.pid) THEN SerializePid(s) ELSE <<TNull("pid")>>)
                   \o <<TStr("bundle", s.bundle)>>
                   \o SerializeAnnotations(s, order) \o <<TEnd>>]
    ELSE [ok |-> FALSE,
          toks |-> <<TObj, TStr("ociVersion", s.version), TStr("id", s.id),
                     TStr("status", ContainerStateSerialize(s.status))>>
                   \o SerializePid(s) \o <<TKey("bundle")>>]

\* serde_json::to_writer(&mut writer, self): the tokens handed to the writer and
\* whether serialization succeeded; a non-UTF-8 bundle fails after its key
SerializeState(s, order) ==
    IF IsUtf8(s.bundle)
    THEN [ok |-> TRUE,
          toks |-> <<TObj, TStr("ociVersion", s.version), TStr("id", s.id),
                     TStr("status", ContainerStateSerialize(s.status))>>
                   \o SerializePid(s) \o <<TStr("bundle", s.bundle)>>
                   \o SerializeAnnotations(s, order) \o <<TEnd>>]
    ELSE [ok |-> FALSE,
          toks |-> <<TObj, TStr("ociVersion", s.version), TStr("id", s.id),
                     TStr("status", ContainerStateSerialize(s.status))>>
                   \o SerializePid(s) \o <<TKey("bundle")>>]

ParseErr == [ok |-> FALSE, val |-> StateDefault]

\* the value of one scalar member for the field its key names
FieldValue(tok) ==
    CASE tok.k \in {"ociVersion", "id", "bundle"} ->
            [ok |-> tok.t = "str", val |-> tok.v]
      [] tok.k = "status" ->
            IF tok.t = "str" /\ ContainerStateDeserialize(tok.v).ok
            THEN [ok |-> TRUE, val |-> ContainerStateDeserialize(tok.v).val]
            ELSE [ok |-> FALSE, val |-> ContainerStateDefault]
      [] tok.k = "pid" ->
            IF tok.t = "null" THEN [ok |-> TRUE, val |-> None]
            ELSE IF tok.t = "num" /\ ParseI32(tok.v).ok
                 THEN [ok |-> TRUE, val |-> Some(ParseI32(tok.v).val)]
                 ELSE [ok |-> FALSE, val |-> None]
      [] tok.k = "annotations" ->
            [ok |-> tok.t = "null", val |-> None]

RECURSIVE ParseMap(_, _, _)
\* a JSON object of string values into a HashMap; a repeated key overrides
ParseMap(toks, i, m) ==
    IF i > Len(toks) THEN [ok |-> FALSE, next |-> i, val |-> m]
    ELSE IF toks[i].t = "}" THEN [ok |-> TRUE, next |-> i + 1, val |-> m]
    ELSE IF toks[i].t = "str"
         THEN ParseMap(toks, i + 1,
                       {e \in m : e[1] # toks[i].k} \cup {<<toks[i].k, toks[i].v>>})
         ELSE [ok |-> FALSE, next |-> i, val |-> m]

RECURSIVE SkipObj(_, _)
\* index after the "}" closing an ignored object, 0 when there is none
SkipObj(toks, i) ==
    IF i > Len(toks) THEN 0
    ELSE IF toks[i].t = "}" THEN i + 1
    ELSE IF toks[i].t \in {"str", "num", "null"} THEN SkipObj(toks, i + 1)
    ELSE 0

RECURSIVE ParseFields(_, _, _, _)
\* the derived Deserialize of State: members in any order, unknown keys
\* ignored, a repeated key an error, missing keys defaulted
ParseFields(toks, i, acc, seen) ==
    IF i > Len(toks) THEN ParseErr
    ELSE IF toks[i].t = "}"
         THEN IF i = Len(toks) THEN [ok |-> TRUE, val |-> acc] ELSE ParseErr
    ELSE IF toks[i].t \in {"str", "num", "null"}
         THEN IF toks[i].k \notin StateKeys
              THEN ParseFields(toks, i + 1, acc, seen)
              ELSE IF toks[i].k \in seen \/ ~FieldValue(toks[i]).ok
                   THEN ParseErr
                   ELSE ParseFields(toks, i + 1,
                            [acc EXCEPT ![FieldOf(toks[i].k)] = FieldValue(toks[i]).val],
                            seen \cup {toks[i].k})
    ELSE IF toks[i].t = "obj"
         THEN IF toks[i].k = "annotations"
              THEN IF "annotations" \in seen \/ ~ParseMap(toks, i + 1, {}).ok
                   THEN ParseErr
                   ELSE ParseFields(toks, ParseMap(toks, i + 1, {}).next,
                            [acc EXCEPT !.annotations = Some(ParseMap(toks, i + 1, {}).val)],
                            seen \cup {"annotations"})
              ELSE IF toks[i].k \in StateKeys \/ SkipObj(toks, i + 1) = 0
                   THEN ParseErr
                   ELSE ParseFields(toks, SkipObj(toks, i + 1), acc, seen)
    ELSE ParseErr

\* serde_json::from_reader::<State>: one object, then end of input
ParseState(toks) ==
    IF Len(toks) = 0 \/ toks[1].t # "{" THEN ParseErr
    ELSE ParseFields(toks, 2, StateDefault, {})

----------------------------------------------------------------------------
(* OciSpecError: the variant each underlying error converts to *)
\* From<std::io::Error> for OciSpecError
FromIoError == "Io"
\* From<serde_json::Error> for OciSpecError: a failure to read the input is an
\* I/O failure, malformed input or an encoding failure a serialization failure
FromSerdeError(category) == IF category = "Io" THEN "Io" ELSE "SerDe"

----------------------------------------------------------------------------
(* One caller saving and loading through one path *)

Doc12 == <<"1",".","2">>
\* documents another program may have left at the path
DocMinimal  == <<TObj, TStr("id", <<"c","1">>), TStr("ociVersion", Doc12), TEnd>>
DocNulls    == <<TObj, TStr("ociVersion", Doc12), TStr("id", <<"c","1">>),
                 TStr("status", <<"r","u","n","n","i","n","g">>), TNull("pid"),
                 TStr("bundle", <<"/","b">>), TNull("annotations"), TEnd>>
DocUnknown  == <<TObj, TStr("owner", <<"r">>), TSub("extra"), TNum("n", <<"1">>), TEnd,
                 TNum("pid", <<"7">>), TStr("status", <<"c","r","e","a","t","e","d">>), TEnd>>
DocBigPid   == <<TObj, TNum("pid", <<"2","1","4","7","4","8","3","6","4","8">>), TEnd>>
DocDupId    == <<TObj, TStr("id", <<"c","1">>), TStr("id", <<"c","1">>), TEnd>>
DocTrailing == <<TObj, TStr("id", <<"c","1">>), TEnd, TJunk>>
DocUpperStatus == <<TObj, TStr("status", <<"R","u","n","n","i","n","g">>), TEnd>>
DocOpen     == <<TObj, TStr("id", <<"c","1">>)>>

ForeignDocs == {<<>>, <<TJunk>>, DocMinimal, DocNulls, DocUnknown, DocBigPid,
                DocDupId, DocTrailing, DocUpperStatus, DocOpen}

\* what the path can be: missing parent directory, a directory, no file,
\* a file without permissions, a regular file
PathStates == {[kind |-> k, data |-> <<>>] : k \in {"nodir", "dir", "absent", "locked"}}
              \cup {[kind |-> "file", data |-> d] : d \in ForeignDocs}

NoCall == [op |-> "none", arg |-> StateDefault, kind |-> "-", val |-> StateDefault]

SeqInit == fs \in PathStates /\ call = NoCall

\* fs::File::create(path)
CreateFails(f) == f.kind \in {"nodir", "dir", "locked"}
\* fs::File::open(path)
OpenFails(f) == f.kind \in {"nodir", "absent", "locked"}
\* reading the opened file
ReadFails(f) == f.kind = "dir"

\* State::save: create/truncate, serialize into the BufWriter, flush; on a
\* serialization error the dropped BufWriter writes out what it holds
SaveResult(f, s, order) ==
    IF CreateFails(f) THEN [fs |-> f, kind |-> FromIoError]
    ELSE LET r == SerializeState(s, order) IN
         [fs |-> [kind |-> "file", data |-> r.toks],
          kind |-> IF r.ok THEN "Ok" ELSE FromSerdeError("Data")]

\* a load that answers the default State when the file does not parse
LoadResult_Lenient(f) ==
    IF OpenFails(f) THEN [kind |-> FromIoError, val |-> StateDefault]
    ELSE IF ReadFails(f) THEN [kind |-> FromSerdeError("Io"), val |-> StateDefault]
    ELSE [kind |-> "Ok", val |-> ParseState(f.data).val]

\* State::load: open, read through the BufReader, parse
LoadResult(f) ==
    IF OpenFails(f) THEN [kind |-> FromIoError, val |-> StateDefault]
    ELSE IF ReadFails(f) THEN [kind |-> FromSerdeError("Io"), val |-> StateDefault]
    ELSE IF ParseState(f.data).ok
         THEN [kind |-> "Ok", val |-> ParseState(f.data).val]
         ELSE [kind |-> FromSerdeError("Syntax"), val |-> StateDefault]

Save(s) ==
    \E order \in AnnotationOrders(s) :
        LET r == SaveResult(fs, s, order) IN
        /\ fs' = r.fs
        /\ call' = [op |-> "save", arg |-> s, kind |-> r.kind, val |-> StateDefault]
        /\ UNCHANGED <<raceVars, mountVars, enumVars>>

Load ==
    /\ LET r == LoadResult(fs) IN
       call' = [op |-> "load", arg |-> StateDefault, kind |-> r.kind, val |-> r.val]
    /\ UNCHANGED fs
    /\ UNCHANGED <<raceVars, mountVars, enumVars>>

\* another program replaces what is at the path
Foreign ==
    /\ fs' \in PathStates
    /\ fs' # fs
    /\ call' = [op |-> "foreign", arg |-> StateDefault, kind |-> "-", val |-> StateDefault]
    /\ UNCHANGED <<raceVars, mountVars, enumVars>>

SeqNext == (\E s \in States : Save(s)) \/ Load \/ Foreign

----------------------------------------------------------------------------
(* Two callers of State::save and one caller of State::load on one path,   *)
(* step by step: each action is one system call on the file                *)

Writers == {1, 2}

ShortState == [StateDefault EXCEPT !.id = <<"c","1">>]
MidState   == [StateDefault EXCEPT !.id = <<"c","2">>, !.pid = Some(7)]
LongState  == [StateDefault EXCEPT !.id = <<"c","3">>, !.status = "Running",
                                   !.pid = Some(42), !.bundle = <<"/","b">>,
                                   !.annotations = Some({<<"k1", <<"v">>>>})]
RaceStates == {ShortState, MidState, LongState}

OldState == [StateDefault EXCEPT !.id = <<"c","0">>, !.status = "Created", !.pid = Some(1)]
OldDoc == SerializeState(OldState, <<>>).toks

\* the document writer w serializes
Doc(w) == SerializeState(wst[w], CHOOSE o \in AnnotationOrders(wst[w]) : TRUE).toks

Min(a, b) == IF a < b THEN a ELSE b

\* open(O_WRONLY | O_CREAT) without O_TRUNC
CreateFile_NoTruncate(f) ==
    IF f.exists THEN f ELSE [exists |-> TRUE, data |-> <<>>]

\* fs::File::create: open(O_WRONLY | O_CREAT | O_TRUNC)
CreateFile(f) == [exists |-> TRUE, data |-> <<>>]

\* write(2) of toks at offset off of a file holding data; a gap reads as NULs
WriteAt(data, off, toks) ==
    [i \in 1..(IF off + Len(toks) > Len(data) THEN off + Len(toks) ELSE Len(data)) |->
        IF i > off /\ i <= off + Len(toks) THEN toks[i - off]
        ELSE IF i <= Len(data) THEN data[i]
        ELSE TNul]

\* a flush that drops what the buffer holds
Buffered_Dropped(doc, pos) == <<>>

\* what the BufWriter holds when it writes: the next BufCap tokens at most
Buffered(doc, pos) == SubSeq(doc, pos, Min(pos + BufCap - 1, Len(doc)))

NoResult == [kind |-> "-", val |-> StateDefault]

RaceInit ==
    /\ file \in {[exists |-> FALSE, data |-> <<>>], [exists |-> TRUE, data |-> OldDoc]}
    /\ wst \in {f \in [Writers -> RaceStates] : f[1] # f[2]}
    /\ wpc = [w \in Writers |-> "idle"]
    /\ woff = [w \in Writers |-> 0]
    /\ wpos = [w \in Writers |-> 1]
    /\ wfresh = [w \in Writers |-> FALSE]
    /\ finished = <<>>
    /\ rpc = "idle"
    /\ roff = 0
    /\ rdata = <<>>
    /\ rres = NoResult
    /\ rfresh = FALSE

\* let file = fs::File::create(path)?; let mut writer = BufWriter::new(file);
SaveCreate(w) ==
    /\ wpc[w] = "idle"
    /\ file' = CreateFile(file)
    /\ wpc' = [wpc EXCEPT ![w] = "write"]
    /\ woff' = [woff EXCEPT ![w] = 0]
    /\ wpos' = [wpos EXCEPT ![w] = 1]
    /\ wfresh' = [x \in Writers |-> x = w]
    /\ rfresh' = FALSE
    /\ UNCHANGED <<wst, finished, rpc, roff, rdata, rres>>
    /\ UNCHANGED <<seqVars, mountVars, enumVars>>

\* serde_json::to_writer: the BufWriter is full and writes itself out
SaveWrite(w) ==
    /\ wpc[w] = "write"
    /\ Len(Doc(w)) - wpos[w] + 1 > BufCap
    /\ file' = [file EXCEPT !.data = WriteAt(file.data, woff[w], Buffered(Doc(w), wpos[w]))]
    /\ woff' = [woff EXCEPT ![w] = @ + Len(Buffered(Doc(w), wpos[w]))]
    /\ wpos' = [wpos EXCEPT ![w] = @ + BufCap]
    /\ wfresh' = [x \in Writers |-> x = w /\ wfresh[w]]
    /\ rfresh' = FALSE
    /\ UNCHANGED <<wst, wpc, finished, rpc, roff, rdata, rres>>
    /\ UNCHANGED <<seqVars, mountVars, enumVars>>

\* writer.flush()?: the rest of the document is written
SaveFlush(w) ==
    /\ wpc[w] = "write"
    /\ Len(Doc(w)) - wpos[w] + 1 <= BufCap
    /\ file' = [file EXCEPT !.data = WriteAt(file.data, woff[w], Buffered(Doc(w), wpos[w]))]
    /\ woff' = [woff EXCEPT ![w] = @ + Len(Buffered(Doc(w), wpos[w]))]
    /\ wpos' = [wpos EXCEPT ![w] = Len(Doc(w)) + 1]
    /\ wpc' = [wpc EXCEPT ![w] = "flushed"]
    /\ wfresh' = [x \in Writers |-> x = w /\ wfresh[w]]
    /\ rfresh' = FALSE
    /\ UNCHANGED <<wst, finished, rpc, roff, rdata, rres>>
    /\ UNCHANGED <<seqVars, mountVars, enumVars>>

\* Ok(())
SaveReturn(w) ==
    /\ wpc[w] = "flushed"
    /\ wpc' = [wpc EXCEPT ![w] = "done"]
    /\ finished' = Append(finished, w)
    /\ UNCHANGED <<file, wst, woff, wpos, wfresh, rpc, roff, rdata, rres, rfresh>>
    /\ UNCHANGED <<seqVars, mountVars, enumVars>>

\* let file = fs::File::open(path)?; let reader = BufReader::new(file);
LoadOpen ==
    /\ rpc = "idle"
    /\ IF file.exists
       THEN /\ rpc' = "read"
            /\ rfresh' = TRUE
            /\ UNCHANGED rres
       ELSE /\ rpc' = "done"
            /\ rres' = [kind |-> FromIoError, val |-> StateDefault]
            /\ UNCHANGED rfresh
    /\ roff' = 0
    /\ rdata' = <<>>
    /\ UNCHANGED <<file, wst, wpc, woff, wpos, wfresh, finished>>
    /\ UNCHANGED <<seqVars, mountVars, enumVars>>

\* serde_json::from_reader: one read(2) of the BufReader; at end of file the
\* parse of everything read is the result
LoadRead ==
    /\ rpc = "read"
    /\ IF roff < Len(file.data)
       THEN /\ rdata' = rdata \o SubSeq(file.data, roff + 1, Min(roff + BufCap, Len(file.data)))
            /\ roff' = Min(roff + BufCap, Len(file.data))
            /\ UNCHANGED <<rpc, rres>>
       ELSE /\ rpc' = "done"
            /\ rres' = IF ParseState(rdata).ok
                       THEN [kind |-> "Ok", val |-> ParseState(rdata).val]
                       ELSE [kind |-> FromSerdeError("Syntax"), val |-> StateDefault]
            /\ UNCHANGED <<rdata, roff>>
    /\ UNCHANGED <<file, wst, wpc, woff, wpos, wfresh, finished, rfresh>>
    /\ UNCHANGED <<seqVars, mountVars, enumVars>>

RaceNext ==
    \/ \E w \in Writers : SaveCreate(w)
    \/ \E w \in Writers : SaveWrite(w)
    \/ \E w \in Writers : SaveFlush(w)
    \/ \E w \in Writers : SaveReturn(w)
    \/ LoadOpen
    \/ LoadRead

----------------------------------------------------------------------------
(* Mount, MountBuilder and the default mount catalog *)

IdMap1 == [container_id |-> 0, host_id |-> 1000, size |-> 1]
IdMap2 == [container_id |-> 1, host_id |-> 2000, size |-> 10]
MappingLists == {<<>>, <<IdMap1>>, <<IdMap1, IdMap2>>}

\* #[derive(Default)] on Mount
MountDefault == [destination |-> "", typ |-> None, source |-> None, options |-> None,
                 uid_mappings |-> None, gid_mappings |-> None]

\* MountBuilder::default(): no field set
BuilderNew == [destination |-> None, typ |-> None, source |-> None, options |-> None,
               uid_mappings |-> None, gid_mappings |-> None]

\* the value of a builder field of Option<Vec<_>> type is non-empty
Specified(field) ==
    IF IsSome(field)
    THEN IF IsSome(Unwrap(field)) THEN Len(Unwrap(Unwrap(field))) > 0 ELSE FALSE
    ELSE FALSE

\* a validation that compares presence instead of non-emptiness
validate_Presence(b) ==
    IF IsSome(b.uid_mappings) # IsSome(b.gid_mappings)
    THEN [ok |-> FALSE, err |-> "Other"]
    ELSE [ok |-> TRUE, err |-> "-"]

\* MountBuilder::validate
validate(b) ==
    IF Specified(b.uid_mappings) # Specified(b.gid_mappings)
    THEN [ok |-> FALSE, err |-> "Other"]
    ELSE [ok |-> TRUE, err |-> "-"]

\* a field the builder holds, or the field of Mount::default()
FieldOr(field, dflt) == IF IsSome(field) THEN Unwrap(field) ELSE dflt

\* MountBuilder::build: validate, then every unset field from Mount::default()
build(b) ==
    IF validate(b).ok
    THEN [kind |-> "Ok",
          mounts |-> <<[destination  |-> FieldOr(b.destination, MountDefault.destination),
                        typ          |-> FieldOr(b.typ, MountDefault.typ),
                        source       |-> FieldOr(b.source, MountDefault.source),
                        options      |-> FieldOr(b.options, MountDefault.options),
                        uid_mappings |-> FieldOr(b.uid_mappings, MountDefault.uid_mappings),
                        gid_mappings |-> FieldOr(b.gid_mappings, MountDefault.gid_mappings)]>>]
    ELSE [kind |-> validate(b).err, mounts |-> <<>>]

\* JSON objects of a mount: each key absent (None) or present
MountDocs == [destination : {None, Some("/data")}, type : {None, Some("bind")},
              source : {None}, options : {None, Some(<<"ro">>)},
              uidMappings : {None} \cup {Some(l) : l \in MappingLists \ {<<IdMap1, IdMap2>>}},
              gidMappings : {None} \cup {Some(l) : l \in MappingLists \ {<<IdMap1, IdMap2>>}}]
NoDoc == [destination |-> None, type |-> None, source |-> None, options |-> None,
          uidMappings |-> None, gidMappings |-> None]

\* the derived Deserialize of Mount: destination is required, every other
\* key defaults to None; no validation runs
DeserializeMount(doc) ==
    IF ~IsSome(doc.destination)
    THEN [kind |-> FromSerdeError("Data"), mounts |-> <<>>]
    ELSE [kind |-> "Ok",
          mounts |-> <<[destination  |-> Unwrap(doc.destination),
                        typ          |-> doc.type,
                        source       |-> doc.source,
                        options      |-> doc.options,
                        uid_mappings |-> doc.uidMappings,
                        gid_mappings |-> doc.gidMappings]>>]

CatalogMount(dest, typ, src, opts) ==
    [destination |-> dest, typ |-> Some(typ), source |-> Some(src), options |-> opts,
     uid_mappings |-> None, gid_mappings |-> None]

get_default_mounts ==
    << CatalogMount("/proc", "proc", "proc", None),
       CatalogMount("/dev", "tmpfs", "tmpfs",
                    Some(<<"nosuid", "strictatime", "mode=755", "size=65536k">>)),
       CatalogMount("/dev/pts", "devpts", "devpts",
                    Some(<<"nosuid", "noexec", "newinstance", "ptmxmode=0666",
                           "mode=0620", "gid=5">>)),
       CatalogMount("/dev/shm", "tmpfs", "shm",
                    Some(<<"nosuid", "noexec", "nodev", "mode=1777", "size=65536k">>)),
       CatalogMount("/dev/mqueue", "mqueue", "mqueue",
                    Some(<<"nosuid", "noexec", "nodev">>)),
       CatalogMount("/sys", "sysfs", "sysfs",
                    Some(<<"nosuid", "noexec", "nodev", "ro">>)),
       CatalogMount("/sys/fs/cgroup", "cgroup", "cgroup",
                    Some(<<"nosuid", "noexec", "nodev", "relatime", "ro">>)) >>

\* iter_mut().find(|m| m.destination == dest): index of the first match, 0 if none
FindMount(mounts, dest) ==
    IF \E i \in 1..Len(mounts) : mounts[i].destination = dest
    THEN CHOOSE i \in 1..Len(mounts) :
            /\ mounts[i].destination = dest
            /\ \A j \in 1..(i - 1) : mounts[j].destination # dest
    ELSE 0

RECURSIVE Retain(_, _)
\* opts.retain(|o| o != x)
Retain(opts, x) ==
    IF Len(opts) = 0 THEN <<>>
    ELSE IF Head(opts) # x THEN <<Head(opts)>> \o Retain(Tail(opts), x)
    ELSE Retain(Tail(opts), x)

\* the first edit of get_rootless_mounts
EditDevPts(mounts) ==
    IF FindMount(mounts, "/dev/pts") = 0 THEN mounts
    ELSE [mounts EXCEPT ![FindMount(mounts, "/dev/pts")].options =
              IF IsSome(@) THEN Some(Retain(Unwrap(@), "gid=5")) ELSE @]

\* the second edit of get_rootless_mounts
EditSys(mounts) ==
    IF FindMount(mounts, "/sys") = 0 THEN mounts
    ELSE [mounts EXCEPT ![FindMount(mounts, "/sys")] =
              [@ EXCEPT !.typ = Some("none"), !.source = Some("/sys"),
                        !.options = IF IsSome(@) THEN Some(Append(Unwrap(@), "rbind")) ELSE @]]

\* the /sys edit applied to the last entry, as if found by a prefix match
get_rootless_mounts_LastSys ==
    [EditDevPts(get_default_mounts) EXCEPT ![7] =
        [@ EXCEPT !.typ = Some("none"), !.source = Some("/sys"),
                  !.options = Some(Append(Unwrap(@), "rbind"))]]

get_rootless_mounts == EditSys(EditDevPts(get_default_mounts))

NoMade == [via |-> "-", builder |-> BuilderNew, doc |-> NoDoc, kind |-> "-", mounts |-> <<>>]

MountInit == mb = BuilderNew /\ made = NoMade

\* MountBuilder::destination(value), setter(into)
SetDestination(d) ==
    /\ mb' = [mb EXCEPT !.destination = Some(d)]
    /\ UNCHANGED made
    /\ UNCHANGED <<seqVars, raceVars, enumVars>>

\* MountBuilder::typ(value), setter(into, strip_option)
SetTyp(t) ==
    /\ mb' = [mb EXCEPT !.typ = Some(Some(t))]
    /\ UNCHANGED made
    /\ UNCHANGED <<seqVars, raceVars, enumVars>>

\* MountBuilder::options(value), setter(into, strip_option)
SetOptions(o) ==
    /\ mb' = [mb EXCEPT !.options = Some(Some(o))]
    /\ UNCHANGED made
    /\ UNCHANGED <<seqVars, raceVars, enumVars>>

\* MountBuilder::uid_mappings(value), setter(into, strip_option)
SetUidMappings(l) ==
    /\ mb' = [mb EXCEPT !.uid_mappings = Some(Some(l))]
    /\ UNCHANGED made
    /\ UNCHANGED <<seqVars, raceVars, enumVars>>

\* MountBuilder::gid_mappings(value), setter(into, strip_option)
SetGidMappings(l) ==
    /\ mb' = [mb EXCEPT !.gid_mappings = Some(Some(l))]
    /\ UNCHANGED made
    /\ UNCHANGED <<seqVars, raceVars, enumVars>>

\* MountBuilder::build(self): the builder is consumed (pattern = "owned")
Build ==
    /\ made' = [via |-> "build", builder |-> mb, doc |-> NoDoc,
                kind |-> build(mb).kind, mounts |-> build(mb).mounts]
    /\ mb' = BuilderNew
    /\ UNCHANGED <<seqVars, raceVars, enumVars>>

\* serde_json::from_str::<Mount>(doc)
FromJson(doc) ==
    /\ made' = [via |-> "json", builder |-> BuilderNew, doc |-> doc,
                kind |-> DeserializeMount(doc).kind, mounts |-> DeserializeMount(doc).mounts]
    /\ UNCHANGED mb
    /\ UNCHANGED <<seqVars, raceVars, enumVars>>

GetDefaultMounts ==
    /\ made' = [via |-> "default", builder |-> BuilderNew, doc |-> NoDoc,
                kind |-> "Ok", mounts |-> get_default_mounts]
    /\ UNCHANGED mb
    /\ UNCHANGED <<seqVars, raceVars, enumVars>>

GetRootlessMounts ==
    /\ made' = [via |-> "rootless", builder |-> BuilderNew, doc |-> NoDoc,
                kind |-> "Ok", mounts |-> get_rootless_mounts]
    /\ UNCHANGED mb
    /\ UNCHANGED <<seqVars, raceVars, enumVars>>

MountNext ==
    \/ SetDestination("/data")
    \/ SetTyp("bind")
    \/ SetOptions(<<"ro">>)
    \/ \E l \in MappingLists : SetUidMappings(l)
    \/ \E l \in MappingLists : SetGidMappings(l)
    \/ Build
    \/ \E doc \in MountDocs : FromJson(doc)
    \/ GetDefaultMounts
    \/ GetRootlessMounts

----------------------------------------------------------------------------
(* ZOSNamespaceType::try_from and the text forms of ContainerState *)

NsTokens == { <<"p","i","d">>, <<"m","o","u","n","t">>, <<"i","p","c">>, <<"u","t","s">>,
              <<>>, <<"P","I","D">>, <<"P","i","d">>, <<"I","p","c">>, <<"U","T","S">>,
              <<"M","o","u","n","t">>, <<"p","i">>, <<"p","i","d"," ">>,
              <<"b","o","g","u","s">> }

MsgPrefix == <<"u","n","k","n","o","w","n"," ","z","/","O","S"," ",
               "n","a","m","e","s","p","a","c","e"," ">>
MsgSuffix == <<","," ","c","o","u","l","d"," ","n","o","t"," ",
               "c","o","n","v","e","r","t">>

\* format!("unknown z/OS namespace {namespace}, could not convert")
UnknownNamespaceMessage(namespace) == MsgPrefix \o namespace \o MsgSuffix

\* a conversion that lowercases its input and answers the default type otherwise
try_from_Lenient(namespace) ==
    CASE ToLower(namespace) = <<"p","i","d">>         -> [kind |-> "Ok", val |-> "Pid", msg |-> <<>>]
      [] ToLower(namespace) = <<"m","o","u","n","t">> -> [kind |-> "Ok", val |-> "Mount", msg |-> <<>>]
      [] ToLower(namespace) = <<"i","p","c">>         -> [kind |-> "Ok", val |-> "Ipc", msg |-> <<>>]
      [] ToLower(namespace) = <<"u","t","s">>         -> [kind |-> "Ok", val |-> "Uts", msg |-> <<>>]
      [] OTHER -> [kind |-> "Ok", val |-> "Pid", msg |-> <<>>]

\* impl TryFrom<&str> for ZOSNamespaceType
try_from(namespace) ==
    CASE namespace = <<"p","i","d">>         -> [kind |-> "Ok", val |-> "Pid", msg |-> <<>>]
      [] namespace = <<"m","o","u","n","t">> -> [kind |-> "Ok", val |-> "Mount", msg |-> <<>>]
      [] namespace = <<"i","p","c">>         -> [kind |-> "Ok", val |-> "Ipc", msg |-> <<>>]
      [] namespace = <<"u","t","s">>         -> [kind |-> "Ok", val |-> "Uts", msg |-> <<>>]
      [] OTHER -> [kind |-> "Other", val |-> "-",
                   msg |-> UnknownNamespaceMessage(namespace)]

\* text tokens handed to the ContainerState deserializer from outside
CsTokens == { <<"R","u","n","n","i","n","g">>, <<"s","t","o","p">>, <<>>,
              <<"c","r","e","a","t","e","d">> }

NoNsCall == [op |-> "-", input |-> <<>>, kind |-> "-", val |-> "-", msg |-> <<>>]
NoCsCall == [op |-> "-", from |-> "-", text |-> <<>>, ok |-> TRUE, variant |-> "-"]

EnumInit == nsCall = NoNsCall /\ csCall = NoCsCall

TryFrom(token) ==
    /\ nsCall' = [op |-> "try_from", input |-> token, kind |-> try_from(token).kind,
                  val |-> try_from(token).val, msg |-> try_from(token).msg]
    /\ UNCHANGED csCall
    /\ UNCHANGED <<seqVars, raceVars, mountVars>>

\* serde_json::to_string(&status)
CsSerialize(c) ==
    /\ csCall' = [op |-> "serialize", from |-> c, text |-> ContainerStateSerialize(c),
                  ok |-> TRUE, variant |-> c]
    /\ UNCHANGED nsCall
    /\ UNCHANGED <<seqVars, raceVars, mountVars>>

\* status.to_string()
CsDisplay(c) ==
    /\ csCall' = [op |-> "display", from |-> c, text |-> ContainerStateDisplay(c),
                  ok |-> TRUE, variant |-> c]
    /\ UNCHANGED nsCall
    /\ UNCHANGED <<seqVars, raceVars, mountVars>>

\* serde_json::from_str of the token the last serialization produced
CsDeserializeBack ==
    /\ csCall.op = "serialize"
    /\ csCall' = [op |-> "deserialize", from |-> csCall.from, text |-> csCall.text,
                  ok |-> ContainerStateDeserialize(csCall.text).ok,
                  variant |-> ContainerStateDeserialize(csCall.text).val]
    /\ UNCHANGED nsCall
    /\ UNCHANGED <<seqVars, raceVars, mountVars>>

\* serde_json::from_str of a token from outside
CsDeserialize(tok) ==
    /\ csCall' = [op |-> "deserialize", from |-> "-", text |-> tok,
                  ok |-> ContainerStateDeserialize(tok).ok,
                  variant |-> ContainerStateDeserialize(tok).val]
    /\ UNCHANGED nsCall
    /\ UNCHANGED <<seqVars, raceVars, mountVars>>

\* ContainerState::default()
CsDefault ==
    /\ csCall' = [op |-> "default", from |-> "-", text |-> <<>>, ok |-> TRUE,
                  variant |-> ContainerStateDefault]
    /\ UNCHANGED nsCall
    /\ UNCHANGED <<seqVars, raceVars, mountVars>>

EnumNext ==
    \/ \E token \in NsTokens : TryFrom(token)
    \/ \E c \in ContainerStates : CsSerialize(c)
    \/ \E c \in ContainerStates : CsDisplay(c)
    \/ CsDeserializeBack
    \/ \E tok \in CsTokens : CsDeserialize(tok)
    \/ CsDefault

----------------------------------------------------------------------------
(* Specifications: each runs one part and leaves the others at rest *)

SeqIdle == fs = [kind |-> "absent", data |-> <<>>] /\ call = NoCall
RaceIdle ==
    /\ file = [exists |-> FALSE, data |-> <<>>]
    /\ wst = [w \in Writers |-> StateDefault]
    /\ wpc = [w \in Writers |-> "idle"]
    /\ woff = [w \in Writers |-> 0]
    /\ wpos = [w \in Writers |-> 1]
    /\ wfresh = [w \in Writers |-> FALSE]
    /\ finished = <<>>
    /\ rpc = "idle"
    /\ roff = 0
    /\ rdata = <<>>
    /\ rres = NoResult
    /\ rfresh = FALSE
MountIdle == MountInit
EnumIdle == EnumInit

Init == SeqInit /\ RaceIdle /\ MountIdle /\ EnumIdle
Next == SeqNext
Spec == Init /\ [][Next]_vars

InitRace == RaceInit /\ SeqIdle /\ MountIdle /\ EnumIdle
NextRace == RaceNext
SpecRace == InitRace /\ [][NextRace]_vars

InitMount == MountInit /\ SeqIdle /\ RaceIdle /\ EnumIdle
NextMount == MountNext
SpecMount == InitMount /\ [][NextMount]_vars

InitEnum == EnumInit /\ SeqIdle /\ RaceIdle /\ MountIdle
NextEnum == EnumNext
SpecEnum == InitEnum /\ [][NextEnum]_vars

----------------------------------------------------------------------------
(* Properties *)

\* C1: a load that directly follows a save that returned Ok, nothing else
\* having written the path in between, returns Ok with a State equal to the
\* saved one in every field
C1_RoundTrip ==
    [][(call.op = "save" /\ call.kind = "Ok" /\ call'.op = "load")
        => /\ call'.kind = "Ok"
           /\ call'.val.version = call.arg.version
           /\ call'.val.id = call.arg.id
           /\ call'.val.status = call.arg.status
           /\ call'.val.pid = call.arg.pid
           /\ call'.val.bundle = call.arg.bundle
           /\ call'.val.annotations = call.arg.annotations]_vars

\* a State with every field set away from its default was saved and loaded back
C1_Witness ==
    /\ call.op = "load"
    /\ call.kind = "Ok"
    /\ call.val.version = Doc12
    /\ call.val.id = <<"c","1">>
    /\ call.val.status = "Creating"
    /\ call.val.pid = Some(I32_MAX)
    /\ call.val.bundle = <<"/","b">>
    /\ call.val.annotations = Some({<<"k1", <<"v">>>>, <<"k2", <<>>>>})

\* C2: build fails with OciSpecError::Other exactly when one of uid_mappings /
\* gid_mappings is set to a non-empty list and the other is unset or empty,
\* and yields a Mount in every other case
C2_BuildValidation ==
    made.via = "build" =>
        LET uidGiven == made.builder.uid_mappings \notin {None, Some(Some(<<>>))}
            gidGiven == made.builder.gid_mappings \notin {None, Some(Some(<<>>))}
        IN  /\ (uidGiven # gidGiven) => (made.kind = "Other" /\ made.mounts = <<>>)
            /\ (uidGiven = gidGiven) => (made.kind = "Ok" /\ Len(made.mounts) = 1)

\* a build with uid_mappings set to the empty list and gid_mappings unset succeeded
C2_Witness ==
    /\ made.via = "build"
    /\ made.builder.uid_mappings = Some(Some(<<>>))
    /\ made.builder.gid_mappings = None
    /\ made.kind = "Ok"

\* C3: every Mount that build, the catalog or JSON parsing yields has
\* uid_mappings and gid_mappings both present-and-nonempty or both absent/empty
C3_JointPresence ==
    made.kind = "Ok" =>
        \A i \in 1..Len(made.mounts) :
            (IsSome(made.mounts[i].uid_mappings) /\ Unwrap(made.mounts[i].uid_mappings) # <<>>)
            <=> (IsSome(made.mounts[i].gid_mappings) /\ Unwrap(made.mounts[i].gid_mappings) # <<>>)

\* C4 as stated: with one save in progress or finished, a load that opened
\* the file has read the complete previous document or the complete new one
C4_NeverPartial ==
    (rpc = "done" /\ rres.kind # "Io" /\ wpc[2] = "idle")
        => rdata \in {OldDoc, Doc(1)}

\* C4 amended: a load that opened the path after a save returned, no writer
\* touching the file since that save's create, reads that save's complete
\* document and returns its State
C4_AfterReturn ==
    \A w \in Writers :
        (rpc = "done" /\ rfresh /\ wpc[w] = "done" /\ wfresh[w])
            => /\ rdata = Doc(w)
               /\ rres = [kind |-> "Ok", val |-> wst[w]]

\* a load ran to its end after a save over the previous document had returned
C4_Witness ==
    /\ rpc = "done"
    /\ rfresh
    /\ rres.kind = "Ok"
    /\ \E w \in Writers : wpc[w] = "done" /\ wfresh[w] /\ Len(Doc(w)) < Len(OldDoc)

\* C5 as stated: once both saves have returned the file holds exactly the
\* document of the one that returned last, and it parses to that State
C5_LastWriterWins ==
    Len(finished) = 2 =>
        /\ file.data = Doc(finished[2])
        /\ ParseState(file.data) = [ok |-> TRUE, val |-> wst[finished[2]]]

\* C5 amended: a save that has returned and whose create came after every
\* file operation of the other save wins: the file holds exactly its document
C5_NonOverlapping ==
    \A w \in Writers :
        (wpc[w] = "done" /\ wfresh[w])
            => /\ file.data = Doc(w)
               /\ ParseState(file.data) = [ok |-> TRUE, val |-> wst[w]]

\* both saves have returned and the second started after the first's last write
C5_Witness ==
    /\ Len(finished) = 2
    /\ wfresh[finished[2]]
    /\ Len(Doc(finished[2])) < Len(Doc(finished[1]))

\* C6: the rootless catalog has the default catalog's destinations in order;
\* /dev/pts loses "gid=5" from its options, /sys gets type "none", source
\* "/sys" and "rbind" appended; everything else equals the default catalog
C6_Rootless ==
    made.via = "rootless" =>
        LET r == made.mounts
            d == get_default_mounts
        IN  /\ Len(r) = 7
            /\ Len(d) = 7
            /\ \A i \in 1..7 :
                /\ r[i].destination = d[i].destination
                /\ r[i].uid_mappings = d[i].uid_mappings
                /\ r[i].gid_mappings = d[i].gid_mappings
                /\ CASE d[i].destination = "/dev/pts" ->
                            /\ r[i].typ = d[i].typ
                            /\ r[i].source = d[i].source
                            /\ IsSome(r[i].options)
                            /\ \A j \in 1..Len(Unwrap(r[i].options)) :
                                    Unwrap(r[i].options)[j] # "gid=5"
                            /\ \E j \in 1..Len(Unwrap(d[i].options)) :
                                    /\ Unwrap(d[i].options)[j] = "gid=5"
                                    /\ Unwrap(r[i].options) =
                                         SubSeq(Unwrap(d[i].options), 1, j - 1)
                                         \o SubSeq(Unwrap(d[i].options), j + 1,
                                                   Len(Unwrap(d[i].options)))
                     [] d[i].destination = "/sys" ->
                            /\ r[i].typ = Some("none")
                            /\ r[i].source = Some("/sys")
                            /\ r[i].options = Some(Unwrap(d[i].options) \o <<"rbind">>)
                     [] OTHER -> r[i] = d[i]

\* the rootless catalog was produced
C6_Witness ==
    /\ made.via = "rootless"
    /\ \E i \in 1..Len(made.mounts) :
          made.mounts[i].destination = "/sys" /\ made.mounts[i].typ = Some("none")

\* C7: try_from answers Ok only for "pid", "mount", "ipc", "uts", with the
\* matching type; any other text gets OciSpecError::Other with a message that
\* contains the text, never the default type
C7_TryFrom ==
    nsCall.op = "try_from" =>
        CASE nsCall.input = <<"p","i","d">> -> nsCall.kind = "Ok" /\ nsCall.val = "Pid"
          [] nsCall.input = <<"m","o","u","n","t">> -> nsCall.kind = "Ok" /\ nsCall.val = "Mount"
          [] nsCall.input = <<"i","p","c">> -> nsCall.kind = "Ok" /\ nsCall.val = "Ipc"
          [] nsCall.input = <<"u","t","s">> -> nsCall.kind = "Ok" /\ nsCall.val = "Uts"
          [] OTHER ->
                /\ nsCall.kind = "Other"
                /\ nsCall.val = "-"
                /\ \E i \in 0..(Len(nsCall.msg) - Len(nsCall.input)) :
                       SubSeq(nsCall.msg, i + 1, i + Len(nsCall.input)) = nsCall.input
                /\ Len(nsCall.msg) > Len(nsCall.input)

\* a differently-cased spelling was converted and rejected
C7_Witness ==
    /\ nsCall.op = "try_from"
    /\ nsCall.input = <<"P","I","D">>
    /\ nsCall.kind = "Other"

C9_OptionalKeys ==
    LET Keys(data) == {data[i].k : i \in 1..Len(data)}
    IN  /\ (call.op = "load" /\ call.kind = "Ok" /\ "pid" \notin Keys(fs.data))
            => call.val.pid = None
        /\ (call.op = "load" /\ call.kind = "Ok" /\ "annotations" \notin Keys(fs.data))
            => call.val.annotations = None
        /\ (call.op = "load" /\ fs = [kind |-> "file", data |-> DocMinimal])
            => call.kind = "Ok"
        /\ (call.op = "save" /\ call.kind = "Ok")
            => /\ (call.arg.pid = None) => "pid" \notin Keys(fs.data)
               /\ (call.arg.annotations = None) => "annotations" \notin Keys(fs.data)
               /\ \A i \in 1..Len(fs.data) : fs.data[i].t # "null"
               /\ \A k \in {"ociVersion", "id", "status", "bundle"} :
                     \E i \in 1..Len(fs.data) : fs.data[i].k = k /\ fs.data[i].t = "str"

\* a State without pid and annotations was saved and its six-token document loaded
C9_Witness ==
    /\ call.op = "load"
    /\ call.kind = "Ok"
    /\ fs.kind = "file"
    /\ Len(fs.data) = 6
    /\ fs.data[2].k = "ociVersion"
    /\ call.val.pid = None
    /\ call.val.annotations = None

\* C10: each variant serializes to its lowercase name, displays as the same
\* text, and deserializes back from it; the default variant is Stopped
C10_StatusTokens ==
    LET Lowercase(c) ==
            CASE c = "Creating" -> <<"c","r","e","a","t","i","n","g">>
              [] c = "Created"  -> <<"c","r","e","a","t","e","d">>
              [] c = "Running"  -> <<"r","u","n","n","i","n","g">>
              [] c = "Stopped"  -> <<"s","t","o","p","p","e","d">>
    IN  /\ csCall.op \in {"serialize", "display"} => csCall.text = Lowercase(csCall.from)
        /\ (csCall.op = "deserialize" /\ csCall.from # "-")
              => (csCall.ok /\ csCall.variant = csCall.from
                  /\ csCall.text = Lowercase(csCall.from))
        /\ csCall.op = "default" => csCall.variant = "Stopped"

\* a serialized Creating was deserialized back
C10_Witness ==
    /\ csCall.op = "deserialize"
    /\ csCall.from = "Creating"
    /\ csCall.ok

====
